---- MODULE Spec2Model ----
(***************************************************************************)
(* A model of the grafana client library (package grafana, api.go): the    *)
(* dashboard document constructors and mutators, and the Session's HTTP    *)
(* operations on top of httpRequest.                                       *)
(*                                                                         *)
(* Dashboard values are Go structs passed by value; Dashboard.Rows is a Go *)
(* slice, i.e. a header (array, len, cap) over a backing array that lives  *)
(* in the heap and may be shared between copies of the struct.             *)
(*                                                                         *)
(* Strings that end up in a URL are sequences of one-character strings, so *)
(* that concatenation, the "https://" prefix test and URL parsing are      *)
(* computed.  Other strings are TLA+ strings.                              *)
(***************************************************************************)
EXTENDS Integers, Sequences, FiniteSets, TLC

VARIABLES
    dbs,     \* the caller's Dashboard variables: variable name -> Dashboard value
    arrays,  \* the heap: backing arrays of the Rows slices, array id -> <<Row, ...>>
    sess,    \* the Session: url, User, Password and the client (cookie jar, TLS policy)
    call     \* the last Session call that touched the network, and what it returned

vars == <<dbs, arrays, sess, call>>

(***************************************************************************)
(* Bounds and input sets.                                                  *)
(***************************************************************************)
\* AddRowPanel is not called on a dashboard that already has MaxRows rows.
MaxRows == 4
\* The caller's variables.
Vars == {"d", "d1"}
Titles == {"demo"}
PanelTitles == {"p1"}
Queries == {"SELECT 1", "SELECT 2"}
\* The tag name lists AddTemplating is called with.
TagLists == {<<>>, <<"host">>, <<"region", "host">>}
Measurements == {"cpu.load"}
Datasources == {"Test"}

\* A nil interface{} value.
Nil == "<nil>"

(***************************************************************************)
(* The document model: default constructors.                               *)
(***************************************************************************)
GetDefaultLegend ==
    [Avg |-> FALSE, Current |-> FALSE, Max |-> FALSE, Min |-> FALSE,
     Show |-> TRUE, Total |-> FALSE, Values |-> FALSE]

GetDefaultTargets(influxql) ==
    << [DsType |-> "influxdb", GroupBy |-> <<>>, Measurement |-> "",
        Policy |-> "default", Query |-> influxql, RawQuery |-> TRUE,
        RefID |-> "A", ResultFormat |-> "time_series", Select |-> <<>>,
        Tags |-> <<>>] >>

GetDefaultToolTip ==
    [Shared |-> TRUE, Sort |-> 0, ValueType |-> "individual"]

GetDefaultXaxis ==
    [Mode |-> "time", Name |-> Nil, Show |-> TRUE, Values |-> <<>>]

GetDefaultYaxes ==
    LET yax == [Format |-> "short", Label |-> Nil, LogBase |-> 1,
                Max |-> Nil, Min |-> Nil, Show |-> TRUE]
    IN  Append(Append(<<>>, yax), yax)

GetDefaultPanel(title, influxql) ==
    [Bars |-> FALSE, Datasource |-> Nil, Fill |-> 1, ID |-> 0,
     Legend |-> GetDefaultLegend, Lines |-> TRUE, Linewidth |-> 1,
     Links |-> <<>>, NullPointMode |-> "null", Percentage |-> FALSE,
     Pointradius |-> 5, Points |-> FALSE, Renderer |-> "flot",
     SeriesOverrides |-> <<>>, Span |-> 12, Stack |-> FALSE,
     SteppedLine |-> FALSE, Targets |-> GetDefaultTargets(influxql),
     Thresholds |-> <<>>, TimeFrom |-> Nil, TimeShift |-> Nil,
     Title |-> title, Tooltip |-> GetDefaultToolTip, Type |-> "graph",
     Xaxis |-> GetDefaultXaxis, Yaxes |-> GetDefaultYaxes]

GetDefaultRow(panelTitle, influxql) ==
    LET row == [Collapse |-> FALSE, Height |-> "250px", Panels |-> <<>>,
                Repeat |-> Nil, RepeatIteration |-> Nil, RepeatRowID |-> Nil,
                ShowTitle |-> FALSE, Title |-> "", TitleSize |-> "h6"]
        panel == GetDefaultPanel(panelTitle, influxql)
    IN  [row EXCEPT !.Panels = Append(row.Panels, panel)]

\* The zero value Row{}: what an element of a fresh backing array holds
\* before it is written.
ZeroRow ==
    [Collapse |-> FALSE, Height |-> "", Panels |-> <<>>,
     Repeat |-> Nil, RepeatIteration |-> Nil, RepeatRowID |-> Nil,
     ShowTitle |-> FALSE, Title |-> "", TitleSize |-> ""]

GetDefaultTemplate(tagName, measurementName, datasource) ==
    [Current |-> [Tags |-> <<>>, Text |-> "", Value |-> Nil],
     Datasource |-> datasource, Hide |-> 0, IncludeAll |-> FALSE,
     Label |-> tagName, Multi |-> TRUE, Name |-> tagName, Options |-> <<>>,
     Query |-> "SHOW TAG VALUES FROM \"" \o measurementName
                   \o "\" WITH  KEY = \"" \o tagName \o "\"",
     Refresh |-> 1, Regex |-> "", Sort |-> 0, Type |-> "query",
     UseTags |-> FALSE]

RECURSIVE GetDefaultTemplatesFrom(_, _, _, _, _)
\* The loop of GetDefaultTemplates: tpls after ranging over qls[i..].
GetDefaultTemplatesFrom(tpls, qls, i, measurementName, datasource) ==
    IF i > Len(qls) THEN tpls
    ELSE GetDefaultTemplatesFrom(
             Append(tpls, GetDefaultTemplate(qls[i], measurementName, datasource)),
             qls, i + 1, measurementName, datasource)

\* A []Template is a record: isNil tells the nil slice from an empty one.
GetDefaultTemplates(qls, measurementName, datasource) ==
    [isNil |-> FALSE,
     elems |-> GetDefaultTemplatesFrom(<<>>, qls, 1, measurementName, datasource)]

GetDefaultTemplating(tagNames, measurementName, datasource) ==
    [List |-> GetDefaultTemplates(tagNames, measurementName, datasource)]

\* make([]Row, 0): a non-nil slice header with no backing storage.
EmptyRows == [arr |-> 0, len |-> 0, cap |-> 0]

GetDefaultDashBoard(dashboardTitle) ==
    [Editable |-> TRUE, GnetID |-> Nil, GraphTooltip |-> 0,
     HideControls |-> FALSE, ID |-> 0, Links |-> <<>>, Rows |-> EmptyRows,
     SchemaVersion |-> 14, Style |-> "dark", Tags |-> <<>>,
     Templating |-> [List |-> [isNil |-> TRUE, elems |-> <<>>]],
     Time |-> [From |-> "now-6h", To |-> "now"],
     Timepicker |->
         [RefreshIntervals |->
              <<"5s", "10s", "30s", "1m", "5m", "15m", "30m", "1h", "2h", "1d">>,
          TimeOptions |->
              <<"5m", "15m", "1h", "6h", "12h", "24h", "2d", "4d", "7d", "30d">>],
     Timezone |-> "browser", Title |-> dashboardTitle, Version |-> 1]

(***************************************************************************)
(* Go slices of Row over the heap.                                         *)
(***************************************************************************)
\* The elements a slice header shows: the first len elements of its array.
Elems(mem, s) == [i \in 1..s.len |-> mem[s.arr][i]]

\* The capacity append gives the new backing array when the old one is full:
\* the gc runtime doubles a slice of fewer than 256 elements, and a
\* zero-capacity slice gets what is needed.  For a Row (136 bytes) rounding
\* up to the allocator's size class adds no element at these capacities
\* (1, 2, 4, 8).
GrowCap(oldCap, needed) ==
    IF needed > 2 * oldCap THEN needed ELSE 2 * oldCap

\* The smallest array id not in use.
FreshArr(mem) == CHOOSE a \in 1..(Cardinality(DOMAIN mem) + 1) : a \notin DOMAIN mem

\* append with an off-by-one index: with spare capacity the new element is
\* written over the last one the slice shows.
SliceAppend_OffByOne(mem, s, x) ==
    IF s.len < s.cap
    THEN [slice |-> [s EXCEPT !.len = s.len + 1],
          mem   |-> [mem EXCEPT ![s.arr][s.len] = x]]
    ELSE LET a    == CHOOSE b \in 1..(Cardinality(DOMAIN mem) + 1) :
                         b \notin DOMAIN mem
             ncap == IF s.len + 1 > 2 * s.cap THEN s.len + 1 ELSE 2 * s.cap
         IN  [slice |-> [arr |-> a, len |-> s.len + 1, cap |-> ncap],
              mem   |-> mem @@ (a :> [i \in 1..ncap |->
                                         IF i <= s.len THEN mem[s.arr][i]
                                         ELSE IF i = s.len + 1 THEN x
                                         ELSE ZeroRow])]

\* append(s, x): writes in place into the backing array when there is spare
\* capacity, else copies into a fresh, larger array.  Yields the new header
\* and the heap.
SliceAppend(mem, s, x) ==
    IF s.len < s.cap
    THEN [slice |-> [s EXCEPT !.len = s.len + 1],
          mem   |-> [mem EXCEPT ![s.arr][s.len + 1] = x]]
    ELSE LET a    == FreshArr(mem)
             ncap == GrowCap(s.cap, s.len + 1)
             old  == Elems(mem, s)
         IN  [slice |-> [arr |-> a, len |-> s.len + 1, cap |-> ncap],
              mem   |-> mem @@ (a :> [i \in 1..ncap |->
                                         IF i <= s.len THEN old[i]
                                         ELSE IF i = s.len + 1 THEN x
                                         ELSE ZeroRow])]

\* The order in which the caller's variables are scanned by Collect.
VarOrder == <<"d", "d1">>

\* Garbage collection: the heap without the arrays no variable refers to.
\* Array ids are addresses, which the program cannot observe, so the live
\* arrays are renumbered 1, 2, ... in the order the variables refer to them.
Collect(mem, ds) ==
    LET live    == {ds[v].Rows.arr : v \in DOMAIN ds} \ {0}
        rank(a) == CHOOSE i \in 1..Len(VarOrder) :
                       /\ ds[VarOrder[i]].Rows.arr = a
                       /\ \A j \in 1..(i - 1) : ds[VarOrder[j]].Rows.arr # a
        id(a)   == IF a = 0 THEN 0
                   ELSE Cardinality({b \in live : rank(b) <= rank(a)})
        at(n)   == CHOOSE a \in live : id(a) = n
    IN  [dbs |-> [v \in DOMAIN ds |->
                     [ds[v] EXCEPT !.Rows = [@ EXCEPT !.arr = id(@)]]],
         mem |-> [n \in 1..Cardinality(live) |-> mem[at(n)]]]

(***************************************************************************)
(* Session: the operations that make no network call.                      *)
(***************************************************************************)
CreateDashboard(dashboardName) == GetDefaultDashBoard(dashboardName)

\* AddRowPanel that sets db.Rows to the new row alone instead of appending.
AddRowPanel_Replace(mem, db, panelTitle, influxql) ==
    LET a == CHOOSE b \in 1..(Cardinality(DOMAIN mem) + 1) : b \notin DOMAIN mem
    IN  [db  |-> [db EXCEPT !.Rows = [arr |-> a, len |-> 1, cap |-> 1]],
         mem |-> mem @@ (a :> <<GetDefaultRow(panelTitle, influxql)>>)]

\* AddRowPanel takes db by value: the struct is copied, the Rows backing
\* array is not.  Yields the returned Dashboard and the heap.
AddRowPanel(mem, db, panelTitle, influxql) ==
    LET r == SliceAppend(mem, db.Rows, GetDefaultRow(panelTitle, influxql))
    IN  [db |-> [db EXCEPT !.Rows = r.slice], mem |-> r.mem]

\* AddTemplating that appends the new templates to the list already there.
AddTemplating_Append(db, tagNames, measurementName, datasource) ==
    [db EXCEPT !.Templating.List =
        [isNil |-> FALSE,
         elems |-> @.elems \o
                   GetDefaultTemplates(tagNames, measurementName, datasource).elems]]

AddTemplating(db, tagNames, measurementName, datasource) ==
    [db EXCEPT !.Templating =
                   GetDefaultTemplating(tagNames, measurementName, datasource)]

(***************************************************************************)
(* Strings that end up in a URL, as sequences of characters.               *)
(***************************************************************************)
HasPrefix(str, prefix) ==
    /\ Len(str) >= Len(prefix)
    /\ SubSeq(str, 1, Len(prefix)) = prefix

HexDigits ==
    {"0", "1", "2", "3", "4", "5", "6", "7", "8", "9",
     "a", "b", "c", "d", "e", "f", "A", "B", "C", "D", "E", "F"}

\* ASCII control characters (those the input sets below can hold).
CtlChars == {"\n", "\r", "\t"}

\* Whether url.Parse, which http.NewRequest calls, accepts the string: it
\* rejects a control character and a "%" that does not start a %XX escape.
\* (No input below holds "?", after which an escape is not checked.)
URLParses(url) ==
    /\ \A i \in 1..Len(url) : url[i] \notin CtlChars
    /\ \A i \in 1..Len(url) :
           url[i] = "%" =>
               /\ i + 2 <= Len(url)
               /\ url[i + 1] \in HexDigits
               /\ url[i + 2] \in HexDigits

LoginPath == <<"/", "l", "o", "g", "i", "n">>
DashboardsPath ==
    <<"/", "a", "p", "i", "/", "d", "a", "s", "h", "b", "o", "a", "r", "d", "s",
      "/", "d", "b">>
HttpsScheme == <<"h", "t", "t", "p", "s", ":", "/", "/">>

(***************************************************************************)
(* Errors.                                                                 *)
(***************************************************************************)
\* A nil error.
NoError == [kind |-> "nil", Code |-> 0, Description |-> ""]

\* GrafanaError{Code, Description}.
GrafanaError(code, description) ==
    [kind |-> "GrafanaError", Code |-> code, Description |-> description]

\* The error of encoding/json's Decoder.Decode: not a GrafanaError.
DecodeError == [kind |-> "json", Code |-> 0, Description |-> "decode"]

\* GrafanaError.Error().
Error(h) ==
    IF h.Code # 0
    THEN "HTTP " \o ToString(h.Code) \o ": " \o h.Description
    ELSE "ERROR: " \o h.Description

(***************************************************************************)
(* The Session and one HTTP exchange.                                      *)
(***************************************************************************)
\* const timeout, in seconds.
timeout == 5

\* protocolRegexp.MatchString: ^https://
ProtocolMatches(url) == HasPrefix(url, HttpsScheme)

NewSession(user, password, url) ==
    [client   |-> [Jar |-> {}, Timeout |-> timeout,
                   InsecureSkipVerify |-> ProtocolMatches(url)],
     User     |-> user,
     Password |-> password,
     url      |-> url]

\* The body of a request that has none (a nil io.Reader).
NoBody == [kind |-> "nil"]

\* The *http.Request of http.NewRequest; isNil when NewRequest fails, i.e.
\* when the URL does not parse (the methods used are all valid).
NewRequest(method, url, body) ==
    IF URLParses(url)
    THEN [isNil |-> FALSE, Method |-> method, URL |-> url, Body |-> body,
          Header |-> << >>]
    ELSE [isNil |-> TRUE, Method |-> "", URL |-> << >>, Body |-> NoBody,
          Header |-> << >>]

\* The response bodies the server may send: not JSON, {"message": m}, and a
\* dashboard result {"meta": {"slug": s}, "model": {...}}.
NotJSON == [valid |-> FALSE, message |-> "", slug |-> << >>]
MessageJSON(m) == [valid |-> TRUE, message |-> m, slug |-> << >>]
DashboardJSON(slug) == [valid |-> TRUE, message |-> "", slug |-> slug]

Names == {<<"x">>, <<"%", "z", "z">>}
Slugs == {<<"x", "-", "1">>}
Messages == {"conflict"}
Bodies == {NotJSON} \cup {MessageJSON(m) : m \in Messages}
              \cup {DashboardJSON(g) : g \in Slugs}
Statuses == {200, 404, 409}
SessionCookie == "grafana_sess"

\* What s.client.Do may come back with: an error (the request could not be
\* dispatched), or a response.
Exchanges ==
    {[err |-> TRUE, status |-> 0, body |-> NotJSON, cookies |-> {}]}
    \cup [err : {FALSE}, status : Statuses, body : Bodies,
          cookies : {{}, {SessionCookie}}]

\* json.NewDecoder(body).Decode(&gMess): the message field, "" when the body
\* does not decode.
DecodeMessage(body) == IF body.valid THEN body.message ELSE ""

\* The outcome of a call that dereferenced nil.
Panicked(s) ==
    [panic |-> TRUE, s |-> s, result |-> NotJSON, err |-> NoError,
     sent |-> << >>, got |-> << >>]

\* httpRequest that does not decode the body of a non-200 response: the
\* error carries the status and an empty description.
httpRequest_NoMessage(s, method, url, body, ex) ==
    LET request == NewRequest(method, url, body)
        wire    == [method |-> request.Method, url |-> request.URL,
                    header |-> <<"Content-Type", "application/json">>,
                    body |-> request.Body, cookies |-> s.client.Jar]
        s2      == [s EXCEPT !.client.Jar = @ \cup ex.cookies]
        resp    == [status |-> ex.status, body |-> ex.body, closed |-> FALSE]
    IN  IF request.isNil THEN Panicked(s)
        ELSE IF ex.err
        THEN [panic |-> FALSE, s |-> s, result |-> NotJSON,
              err |-> GrafanaError(0, "Unable to perform the http request"),
              sent |-> <<wire>>, got |-> << >>]
        ELSE IF ex.status # 200
        THEN [panic |-> FALSE, s |-> s2, result |-> NotJSON,
              err |-> GrafanaError(ex.status, ""),
              sent |-> <<wire>>, got |-> <<resp>>]
        ELSE [panic |-> FALSE, s |-> s2, result |-> ex.body, err |-> NoError,
              sent |-> <<wire>>, got |-> <<resp>>]

\* httpRequest(method, url, body), with ex what client.Do comes back with.
\* Yields the returned (result, err), whether the call panicked, the requests
\* handed to client.Do, the responses received (closed tells whether
\* response.Body.Close was called) and the Session with its cookie jar.
httpRequest(s, method, url, body, ex) ==
    LET request == NewRequest(method, url, body)
    IN  IF request.isNil
        THEN \* request.Header.Set on a nil *Request
             Panicked(s)
        ELSE
        LET req  == [request EXCEPT !.Header =
                         <<"Content-Type", "application/json">>]
            wire == [method |-> req.Method, url |-> req.URL,
                     header |-> req.Header, body |-> req.Body,
                     cookies |-> s.client.Jar]
        IN  IF ex.err
            THEN [panic |-> FALSE, s |-> s, result |-> NotJSON,
                  err |-> GrafanaError(0, "Unable to perform the http request"),
                  sent |-> <<wire>>, got |-> << >>]
            ELSE
            LET s2   == [s EXCEPT !.client.Jar = @ \cup ex.cookies]
                resp == [status |-> ex.status, body |-> ex.body,
                         closed |-> FALSE]
            IN  IF ex.status # 200
                THEN [panic |-> FALSE, s |-> s2, result |-> NotJSON,
                      err |-> GrafanaError(ex.status, DecodeMessage(ex.body)),
                      sent |-> <<wire>>, got |-> <<resp>>]
                ELSE [panic |-> FALSE, s |-> s2, result |-> ex.body,
                      err |-> NoError,
                      sent |-> <<wire>>, got |-> <<resp>>]

Login(s, ex) ==
    LET reqURL    == s.url \o LoginPath
        loginInfo == [kind |-> "UserInfo", User |-> s.User, Email |-> "",
                      Password |-> s.Password]
    IN  httpRequest(s, "POST", reqURL, loginInfo, ex)

\* json.Marshal of a Dashboard: the rows are the elements the slice shows.
MarshalDashboard(mem, db) == [db EXCEPT !.Rows = Elems(mem, db.Rows)]

UpdateDashboard(s, mem, db, overwrite, ex) ==
    LET reqURL  == s.url \o DashboardsPath
        content == [kind |-> "DashboardUploader",
                    Dashboard |-> MarshalDashboard(mem, db),
                    Overwrite |-> overwrite]
    IN  httpRequest(s, "POST", reqURL, content, ex)

\* The zero DashboardResult.
NoDashboardResult == [Meta |-> [Slug |-> << >>]]

\* GetDashboard(name): as httpRequest, with dashboard in place of result.
GetDashboard(s, name, ex) ==
    LET reqURL == s.url \o DashboardsPath \o <<"/">> \o name
        r      == httpRequest(s, "GET", reqURL, NoBody, ex)
    IN  IF r.panic \/ r.err # NoError
        THEN [panic |-> r.panic, s |-> r.s, dashboard |-> NoDashboardResult,
              err |-> r.err, sent |-> r.sent, got |-> r.got]
        ELSE IF r.result.valid
        THEN [panic |-> FALSE, s |-> r.s,
              dashboard |-> [Meta |-> [Slug |-> r.result.slug]],
              err |-> NoError, sent |-> r.sent, got |-> r.got]
        ELSE [panic |-> FALSE, s |-> r.s, dashboard |-> NoDashboardResult,
              err |-> DecodeError, sent |-> r.sent, got |-> r.got]

\* DeleteDashBoard that does not look at the lookup's error and goes on to
\* the DELETE with whatever slug the (possibly zero) result holds.
DeleteDashBoard_NoCheck(s, dashBoardName, ex1, ex2) ==
    LET dashRes == GetDashboard(s, dashBoardName, ex1)
        slug    == dashRes.dashboard.Meta.Slug
        reqURL  == dashRes.s.url \o DashboardsPath \o <<"/">> \o slug
        r       == httpRequest(dashRes.s, "DELETE", reqURL, NoBody, ex2)
    IN  IF dashRes.panic
        THEN [panic |-> TRUE, s |-> dashRes.s, err |-> dashRes.err,
              sent |-> dashRes.sent, got |-> dashRes.got]
        ELSE [panic |-> r.panic, s |-> r.s, err |-> r.err,
              sent |-> dashRes.sent \o r.sent, got |-> dashRes.got \o r.got]

\* DeleteDashBoard(dashBoardName): ex1 answers the GET, ex2 the DELETE.
DeleteDashBoard(s, dashBoardName, ex1, ex2) ==
    LET dashRes == GetDashboard(s, dashBoardName, ex1)
    IN  IF dashRes.panic \/ dashRes.err # NoError
        THEN [panic |-> dashRes.panic, s |-> dashRes.s, err |-> dashRes.err,
              sent |-> dashRes.sent, got |-> dashRes.got]
        ELSE
        LET slug   == dashRes.dashboard.Meta.Slug
            reqURL == dashRes.s.url \o DashboardsPath \o <<"/">> \o slug
            r      == httpRequest(dashRes.s, "DELETE", reqURL, NoBody, ex2)
        IN  [panic |-> r.panic, s |-> r.s, err |-> r.err,
             sent |-> dashRes.sent \o r.sent, got |-> dashRes.got \o r.got]

\* A panic ends the process.
Running == ~call.panic

(***************************************************************************)
(* Actions: the caller runs w = s.Op(v, ...) on its variables.             *)
(***************************************************************************)
CreateDashboardStep(w, title) ==
    /\ Running
    /\ LET gc == Collect(arrays, [dbs EXCEPT ![w] = CreateDashboard(title)])
       IN  dbs' = gc.dbs /\ arrays' = gc.mem
    /\ UNCHANGED <<sess, call>>

AddRowPanelStep(v, w, panelTitle, influxql) ==
    /\ Running
    /\ dbs[v].Rows.len < MaxRows
    /\ LET r  == AddRowPanel(arrays, dbs[v], panelTitle, influxql)
           gc == Collect(r.mem, [dbs EXCEPT ![w] = r.db])
       IN  dbs' = gc.dbs /\ arrays' = gc.mem
    /\ UNCHANGED <<sess, call>>

AddTemplatingStep(v, w, tagNames, measurementName, datasource) ==
    /\ Running
    /\ LET r  == AddTemplating(dbs[v], tagNames, measurementName, datasource)
           gc == Collect(arrays, [dbs EXCEPT ![w] = r])
       IN  dbs' = gc.dbs /\ arrays' = gc.mem
    /\ UNCHANGED <<sess, call>>

DocInit ==
    /\ dbs \in [Vars -> {CreateDashboard(t) : t \in Titles}]
    /\ arrays = << >>

\* The base URLs a Session is made with: http, https, and one with the
\* trailing line break of a value read from a file.
PlainURL == <<"h", "t", "t", "p", ":", "/", "/", "g">>
BaseURLs ==
    {PlainURL,
     <<"h", "t", "t", "p", "s", ":", "/", "/", "g">>,
     <<"h", "t", "t", "p", ":", "/", "/", "g", "\n">>}

\* The record of a Session call: the operation, the name it was given, what
\* it handed to client.Do and received, and how it ended.
Called(op, name, r) ==
    [op |-> op, name |-> name, sent |-> r.sent, got |-> r.got,
     err |-> r.err, panic |-> r.panic]

\* No call yet: the Session has just been made.
Started ==
    [op |-> "NewSession", name |-> << >>, sent |-> << >>, got |-> << >>,
     err |-> NoError, panic |-> FALSE]

Init ==
    /\ DocInit
    /\ sess \in {NewSession("admin", "admin", u) : u \in BaseURLs}
    /\ call = Started

LoginStep(ex) ==
    /\ Running
    /\ LET r == Login(sess, ex)
       IN  sess' = r.s /\ call' = Called("Login", << >>, r)
    /\ UNCHANGED <<dbs, arrays>>

LogoutStep ==
    /\ Running
    /\ call' = [op |-> "Logout", name |-> << >>, sent |-> << >>,
                got |-> << >>, err |-> NoError, panic |-> FALSE]
    /\ UNCHANGED <<dbs, arrays, sess>>

UpdateDashboardStep(v, overwrite, ex) ==
    /\ Running
    /\ LET r == UpdateDashboard(sess, arrays, dbs[v], overwrite, ex)
       IN  sess' = r.s /\ call' = Called("UpdateDashboard", << >>, r)
    /\ UNCHANGED <<dbs, arrays>>

GetDashboardStep(name, ex) ==
    /\ Running
    /\ LET r == GetDashboard(sess, name, ex)
       IN  sess' = r.s /\ call' = Called("GetDashboard", name, r)
    /\ UNCHANGED <<dbs, arrays>>

DeleteDashBoardStep(name, ex1, ex2) ==
    /\ Running
    /\ LET r == DeleteDashBoard(sess, name, ex1, ex2)
       IN  sess' = r.s /\ call' = Called("DeleteDashBoard", name, r)
    /\ UNCHANGED <<dbs, arrays>>

DocNext ==
    \/ \E w \in Vars, t \in Titles : CreateDashboardStep(w, t)
    \/ \E v \in Vars, w \in Vars, p \in PanelTitles, q \in Queries :
           AddRowPanelStep(v, w, p, q)
    \/ \E v \in Vars, w \in Vars, tags \in TagLists,
          m \in Measurements, ds \in Datasources :
           AddTemplatingStep(v, w, tags, m, ds)

SessionNext ==
    \/ \E ex \in Exchanges : LoginStep(ex)
    \/ LogoutStep
    \/ \E v \in Vars, overwrite \in BOOLEAN, ex \in Exchanges :
           UpdateDashboardStep(v, overwrite, ex)
    \/ \E name \in Names, ex \in Exchanges : GetDashboardStep(name, ex)
    \/ \E name \in Names, ex1 \in Exchanges, ex2 \in Exchanges :
           DeleteDashBoardStep(name, ex1, ex2)

Next == DocNext \/ SessionNext

\* The library as a whole.
Spec == Init /\ [][Next]_vars

\* The document model alone: the caller builds dashboards, with a Session
\* that is never sent to the network.
DocStart ==
    /\ DocInit
    /\ sess = NewSession("admin", "admin", PlainURL)
    /\ call = Started

DocSpec == DocStart /\ [][DocNext]_vars

\* The Session's network operations alone, on the dashboards of Init.
SessionSpec == Init /\ [][SessionNext]_vars

(***************************************************************************)
(* Properties.                                                             *)
(***************************************************************************)
\* The rows a caller sees in variable v.
Rows(v) == Elems(arrays, dbs[v].Rows)

\* A Dashboard without its Rows and its Templating.
OtherFields(db) ==
    [db EXCEPT !.Rows = EmptyRows,
               !.Templating = [List |-> [isNil |-> TRUE, elems |-> << >>]]]

\* The URL of the dashboard called name.
DashboardURL(name) == sess.url \o DashboardsPath \o <<"/">> \o name

\* Whether the first response of the last call is a 200 that decodes.
LookupSucceeded ==
    /\ Len(call.got) >= 1
    /\ call.got[1].status = 200
    /\ call.got[1].body.valid

\* The error a failed lookup must return: code 0 when the GET could not be
\* dispatched, the status and the server's message on a non-200, the
\* decoder's error on a 200 that does not decode.
LookupError ==
    IF call.got = << >>
    THEN GrafanaError(0, "Unable to perform the http request")
    ELSE IF call.got[1].status # 200
    THEN GrafanaError(call.got[1].status,
                      IF call.got[1].body.valid THEN call.got[1].body.message
                      ELSE "")
    ELSE DecodeError

\* C1: DeleteDashBoard(name) issues a DELETE only as its second request,
\* after its own GET for name has come back 200 with a body that decodes,
\* and the DELETE goes to the slug of that response; when the lookup fails
\* (dispatch failure, non-200 or decode failure) no DELETE is issued and the
\* error returned is the lookup's error.
C1_DeleteOnlyAfterLookup ==
    call.op = "DeleteDashBoard" =>
        /\ \A i \in 1..Len(call.sent) :
               call.sent[i].method = "DELETE" =>
                   /\ i = 2
                   /\ call.sent[1].method = "GET"
                   /\ call.sent[1].url = DashboardURL(call.name)
                   /\ LookupSucceeded
                   /\ call.sent[i].url = DashboardURL(call.got[1].body.slug)
        /\ (~call.panic /\ ~LookupSucceeded) =>
               /\ \A i \in 1..Len(call.sent) : call.sent[i].method # "DELETE"
               /\ call.err = LookupError

\* A DeleteDashBoard that went on to DELETE a slug that is not the name.
C1_Witness ==
    /\ call.op = "DeleteDashBoard"
    /\ call.name = <<"x">>
    /\ Len(call.sent) = 2
    /\ call.sent[2].method = "DELETE"
    /\ call.sent[2].url = DashboardURL(<<"x", "-", "1">>)

\* C2: the error of httpRequest (which Login and UpdateDashboard return as
\* it is) classifies the exchange: code 0 with the local description exactly
\* when the request could not be dispatched; the response's status with the
\* message of its JSON body ("" when the body does not decode) exactly when
\* a response other than 200 arrived; no error on a 200.
C2_ErrorClassifiesExchange ==
    (call.op \in {"Login", "UpdateDashboard"} /\ ~call.panic) =>
        /\ Len(call.sent) = 1
        /\ (call.err.kind = "GrafanaError" /\ call.err.Code = 0)
               <=> call.got = << >>
        /\ call.got = << >> =>
               /\ call.err = GrafanaError(0, "Unable to perform the http request")
               /\ Error(call.err) = "ERROR: Unable to perform the http request"
        /\ (call.err.kind = "GrafanaError" /\ call.err.Code # 0)
               <=> (call.got # << >> /\ call.got[1].status # 200)
        /\ (call.got # << >> /\ call.got[1].status # 200) =>
               /\ call.err.Code = call.got[1].status
               /\ call.err.Description =
                      (IF call.got[1].body.valid
                       THEN call.got[1].body.message ELSE "")
        /\ (call.got # << >> /\ call.got[1].status = 200) => call.err = NoError
        /\ call.err.kind \in {"nil", "GrafanaError"}

\* A Login answered 409 {"message": "conflict"}.
C2_Witness ==
    /\ call.op = "Login"
    /\ call.got # << >>
    /\ call.got[1].status = 409
    /\ call.got[1].body = MessageJSON("conflict")
    /\ Error(call.err) = "HTTP 409: conflict"

\* C3: no operation retries.  CreateDashboard, AddRowPanel and AddTemplating
\* touch neither the Session nor the network; Login, UpdateDashboard and
\* GetDashboard hand exactly one request to the client per call, whatever the
\* outcome; DeleteDashBoard one GET and then at most one DELETE; and every
\* call returns to its caller.
C3_NoRetries ==
    [][/\ DocNext => UNCHANGED <<sess, call>>
       /\ SessionNext =>
              /\ ~call'.panic
              /\ call'.op \in {"Login", "UpdateDashboard", "GetDashboard"} =>
                     Len(call'.sent) = 1
              /\ call'.op = "Logout" => call'.sent = << >>
              /\ call'.op = "DeleteDashBoard" =>
                     /\ Len(call'.sent) \in {1, 2}
                     /\ call'.sent[1].method = "GET"
                     /\ Len(call'.sent) = 2 => call'.sent[2].method = "DELETE"]_vars

\* C4: AddRowPanel is append-only: for every dashboard d a caller can hold
\* and every p and q, the result of AddRowPanel(d, p, q) has one row more
\* than d, d's rows come first, unchanged and in order, and the last row is
\* the default row with one panel whose one target has the query q.
C4_AddRowPanelAppends ==
    \A v \in Vars, p \in PanelTitles, q \in Queries :
        LET r      == AddRowPanel(arrays, dbs[v], p, q)
            input  == Rows(v)
            result == Elems(r.mem, r.db.Rows)
            last   == result[Len(result)]
        IN  /\ Len(result) = Len(input) + 1
            /\ \A i \in 1..Len(input) : result[i] = input[i]
            /\ last.Height = "250px" /\ last.TitleSize = "h6"
            /\ ~last.Collapse /\ ~last.ShowTitle /\ last.Title = ""
            /\ Len(last.Panels) = 1
            /\ last.Panels[1].Title = p
            /\ last.Panels[1].Type = "graph"
            /\ Len(last.Panels[1].Targets) = 1
            /\ last.Panels[1].Targets[1].Query = q

\* A dashboard of three rows whose queries differ.
C4_Witness ==
    \E v \in Vars :
        /\ Len(Rows(v)) = 3
        /\ Rows(v)[1].Panels[1].Targets[1].Query = "SELECT 1"
        /\ Rows(v)[2].Panels[1].Targets[1].Query = "SELECT 2"
        /\ Rows(v)[3].Panels[1].Targets[1].Query = "SELECT 1"

\* C5: AddTemplating replaces the templating block: for every dashboard a
\* caller can hold, whatever earlier AddTemplating calls left in it, the
\* result's list holds one template per tag name of this call, in the
\* call's order, and nothing else (none at all for no tag names).
C5_AddTemplatingReplaces ==
    \A v \in Vars, tags \in TagLists, m \in Measurements, ds \in Datasources :
        LET list == AddTemplating(dbs[v], tags, m, ds).Templating.List
        IN  /\ ~list.isNil
            /\ Len(list.elems) = Len(tags)
            /\ \A i \in 1..Len(tags) : list.elems[i].Name = tags[i]

\* One variable holds the templates of ("region", "host"), the other the
\* empty list an AddTemplating with no tag names leaves.
C5_Witness ==
    /\ Len(dbs["d"].Templating.List.elems) = 2
    /\ dbs["d"].Templating.List.elems[1].Name = "region"
    /\ dbs["d"].Templating.List.elems[2].Name = "host"
    /\ ~dbs["d1"].Templating.List.isNil
    /\ dbs["d1"].Templating.List.elems = << >>

\* C6: the query of every generated template is exactly
\* SHOW TAG VALUES FROM "<m>" WITH KEY = "<n>", single spaces between the
\* words, with n the template's name.
C6_TemplateQueryExact ==
    \A v \in Vars :
        \A i \in 1..Len(dbs[v].Templating.List.elems) :
            LET tpl == dbs[v].Templating.List.elems[i]
            IN  \E m \in Measurements :
                    tpl.Query = "SHOW TAG VALUES FROM \"" \o m
                                    \o "\" WITH KEY = \"" \o tpl.Name \o "\""

\* C7: the mutators leave their input as it was and change one field only:
\* for every dashboard d a caller can hold, after AddRowPanel(d, ...) has
\* returned d still shows the rows it showed before; the result differs from
\* d only in Rows (AddRowPanel) or only in Templating (AddTemplating, which
\* has no access to the heap); and every dashboard that came from
\* CreateDashboard through these operations has SchemaVersion 14, Version 1.
C7_MutatorsFrame ==
    /\ \A v \in Vars, p \in PanelTitles, q \in Queries :
           LET r == AddRowPanel(arrays, dbs[v], p, q)
           IN  /\ Elems(r.mem, dbs[v].Rows) = Rows(v)
               /\ r.db.Templating = dbs[v].Templating
               /\ OtherFields(r.db) = OtherFields(dbs[v])
    /\ \A v \in Vars, tags \in TagLists, m \in Measurements, ds \in Datasources :
           LET r == AddTemplating(dbs[v], tags, m, ds)
           IN  /\ r.Rows = dbs[v].Rows
               /\ OtherFields(r) = OtherFields(dbs[v])
    /\ \A u \in Vars : dbs[u].SchemaVersion = 14 /\ dbs[u].Version = 1

\* The input d and the longer result d1 of AddRowPanel(d, ...) share a
\* backing array.
C7_Witness ==
    /\ dbs["d"].Rows.arr # 0
    /\ dbs["d"].Rows.arr = dbs["d1"].Rows.arr
    /\ dbs["d1"].Rows.len = dbs["d"].Rows.len + 1

\* C8: every response body a call obtained has been closed when the call
\* returns.
C8_BodiesClosed ==
    \A i \in 1..Len(call.got) : call.got[i].closed

\* C9: a result of AddRowPanel is independent of later calls: an
\* AddRowPanel step changes the rows of no variable but the one its result
\* is assigned to.
C9_ResultsIndependent ==
    [][\A v \in Vars, w \in Vars, p \in PanelTitles, q \in Queries :
           AddRowPanelStep(v, w, p, q) =>
               \A u \in Vars \ {w} :
                   Elems(arrays', dbs'[u].Rows) = Rows(u)]_vars

\* C10: httpRequest is total: no call ends in a panic, and GetDashboard and
\* DeleteDashBoard return an error for a name whose URL does not parse.
C10_HttpRequestTotal ==
    /\ ~call.panic
    /\ (call.op \in {"GetDashboard", "DeleteDashBoard"}
            /\ ~URLParses(DashboardURL(call.name))) => call.err # NoError

====
